---- MODULE Spec2Model ----
(***************************************************************************)
(* Model of gh_secrets_and_vars_async.py: perform_update reads a .env      *)
(* file, classifies its entries into secrets and variables, resolves the   *)
(* GitHub repository and reconciles the remote secrets and the remote      *)
(* variables with the two local buckets, either live (asyncio.gather over  *)
(* asyncio.to_thread calls) or as a dry run.                               *)
(*                                                                         *)
(* Keys are sequences of one-character strings so that startswith,         *)
(* casefold and substring containment are computed, not assumed.           *)
(* Python dicts and lists are sequences (insertion order is kept).         *)
(* The remote store is a sequence of [name, value] records, in listing     *)
(* order.                                                                  *)
(***************************************************************************)
EXTENDS Bags, FiniteSets, Integers, Sequences, TLC

VARIABLES
  file,        \* the (key, value) pairs split out of the file, in line order
  lineNo,      \* number of file entries already classified
  secrets,     \* dict secrets of perform_update
  not_secrets, \* dict not_secrets of perform_update
  dry_run,     \* the dry_run argument
  pc,          \* position of perform_update
  secretStore, \* remote repository secrets
  varStore,    \* remote repository variables
  secretStore0,\* remote secrets when the run started
  varStore0,   \* remote variables when the run started
  listing,     \* <<secrets listing, variables listing>> as fetched by the run
  tasks,       \* the list tasks of the bucket being reconciled
  taskState,   \* state of each task's to_thread work item
  results,     \* the dict returned by perform_update, or <<>> before that
  partial,     \* secret_update_result once the secrets bucket has returned
  calls,       \* bag of the mutation calls issued to the remote store
  fetches,     \* set of buckets whose listing call was issued
  lookup,      \* outcomes of the user and organization lookups, or <<>>
  errors,      \* the remote calls that raised, as [op, name]
  summary,     \* <<total_secrets, total_vars>> printed by cli, or <<>>
  run          \* number of the cli invocation

vars == <<file, lineNo, secrets, not_secrets, dry_run, pc, secretStore,
          varStore, secretStore0, varStore0, listing, tasks, taskState,
          results, partial, calls, fetches, lookup, errors, summary, run>>

(***************************************************************************)
(* Bounds of the model.                                                    *)
(***************************************************************************)
MaxLines == 2
MaxRemote == 2

(***************************************************************************)
(* Strings.                                                                *)
(***************************************************************************)
UpperChars == <<"A","B","C","D","E","F","G","H","I","J","K","L","M",
                "N","O","P","Q","R","S","T","U","V","W","X","Y","Z">>
LowerChars == <<"a","b","c","d","e","f","g","h","i","j","k","l","m",
                "n","o","p","q","r","s","t","u","v","w","x","y","z">>

RECURSIVE Concat(_)
Concat(ss) == IF ss = <<>> THEN <<>> ELSE Head(ss) \o Concat(Tail(ss))

\* str.casefold of one character: upper case letters fold to lower case,
\* the sharp s folds to "ss", every other character used here is unchanged.
FoldChar(c) ==
  IF \E i \in 1..Len(UpperChars) : UpperChars[i] = c
    THEN <<LowerChars[CHOOSE i \in 1..Len(UpperChars) : UpperChars[i] = c]>>
    ELSE IF c = "ß" THEN <<"s", "s">> ELSE <<c>>

casefold(s) == Concat([i \in 1..Len(s) |-> FoldChar(s[i])])

\* str.startswith
startswith(s, p) ==
  /\ Len(p) <= Len(s)
  /\ \A i \in 1..Len(p) : s[i] = p[i]

\* the substring test  sub in s
contains(s, sub) ==
  \E off \in 0..(Len(s) - Len(sub)) :
    \A i \in 1..Len(sub) : s[off + i] = sub[i]

RESERVED_PREFIX == <<"A","W","S","_","P","R","O","F","I","L","E">>

SECRETS_INDICATORS ==
  << <<"s","e","c","r","e","t">>, <<"k","e","y">>, <<"t","o","k","e","n">>,
     <<"b","e","a","r","e","r">>, <<"p","a","s","s","w","o","r","d">>,
     <<"p","a","s","s">>, <<"p","w","d">>, <<"p","w","o","r","d">>,
     <<"h","a","s","h">> >>

\* any(indicator in key.casefold() for indicator in SECRETS_INDICATORS)
any_indicator(key) ==
  \E n \in 1..Len(SECRETS_INDICATORS) :
    contains(casefold(key), SECRETS_INDICATORS[n])

\* the match statement: the first case that applies decides
MatchKeyPrefixLast(key) ==
  IF any_indicator(key) THEN "secret"
  ELSE IF startswith(key, RESERVED_PREFIX) THEN "skip"
  ELSE "variable"

MatchKey(key) ==
  IF startswith(key, RESERVED_PREFIX) THEN "skip"
  ELSE IF any_indicator(key) THEN "secret"
  ELSE "variable"

(***************************************************************************)
(* Dicts: sequences of <<key, value>> in insertion order.                  *)
(***************************************************************************)
Keys(d) == {d[i][1] : i \in 1..Len(d)}

Get(d, k) == d[CHOOSE i \in 1..Len(d) : d[i][1] = k][2]

\* d[k] = v : an existing key keeps its position, a new key is appended
DictSet(d, k, v) ==
  IF k \in Keys(d)
    THEN [i \in 1..Len(d) |-> IF d[i][1] = k THEN <<k, v>> ELSE d[i]]
    ELSE Append(d, <<k, v>>)

Range(s) == {s[i] : i \in 1..Len(s)}

(***************************************************************************)
(* Keys and values of the inputs.                                          *)
(***************************************************************************)
K_API_TOKEN == <<"A","P","I","_","T","O","K","E","N">>
K_DB_PASSWORD == <<"D","B","_","P","A","S","S","W","O","R","D">>
K_REGION == <<"R","E","G","I","O","N">>
K_OLD_VAR == <<"O","L","D","_","V","A","R">>
K_OLD_KEY == <<"O","L","D","_","K","E","Y">>
K_AWS_PROFILE_NAME == RESERVED_PREFIX \o <<"_","N","A","M","E">>
K_AWS_PROFILE_KEY == RESERVED_PREFIX \o <<"_","K","E","Y">>
K_AWS_PROFILE == RESERVED_PREFIX
K_aws_profile_key == <<"a","w","s","_","p","r","o","f","i","l","e","_","k","e","y">>
K_X_AWS_PROFILE == <<"X","_">> \o RESERVED_PREFIX
K_Hash_Salt == <<"H","a","s","h","_","S","a","l","t">>
K_MONKEY == <<"M","O","N","K","E","Y">>
K_PASZ == <<"P","A","ß">>
K_PATH == <<"P","A","T","H">>
K_EMPTY == <<>>

NoValue == "-"

\* the entries a file can hold in the reconciliation runs
FileLines ==
  { <<K_API_TOKEN, "v2">>, <<K_DB_PASSWORD, "v2">>, <<K_REGION, "v1">>,
    <<K_REGION, "v2">>, <<K_AWS_PROFILE_NAME, "v2">> }

\* the entries a file can hold in the classification runs
ClassifyKeys ==
  { K_API_TOKEN, K_DB_PASSWORD, K_REGION, K_OLD_VAR, K_AWS_PROFILE_NAME,
    K_AWS_PROFILE_KEY, K_AWS_PROFILE, K_aws_profile_key, K_X_AWS_PROFILE,
    K_Hash_Salt, K_MONKEY, K_PASZ, K_PATH, K_EMPTY }

ClassifyLines == {<<k, "v1">> : k \in ClassifyKeys}

RemoteSecretNames == {K_API_TOKEN, K_OLD_KEY}
RemoteVariableNames == {K_REGION, K_AWS_PROFILE_NAME}

SeqsUpTo(S, n) == UNION {[1..m -> S] : m \in 0..n}

\* the stores of at most n entries over the given names, each name once
StoresOver(names, n) ==
  { st \in SeqsUpTo([name : names, value : {"v1"}], n) :
      \A i, j \in 1..Len(st) : i # j => st[i].name # st[j].name }

(***************************************************************************)
(* The remote store (PyGithub Repository calls).                           *)
(***************************************************************************)
StoreNames(st) == {st[i].name : i \in 1..Len(st)}

StoreValue(st, n) == st[CHOOSE i \in 1..Len(st) : st[i].name = n].value

\* create_secret / create_variable: the entry holds the value afterwards
Upsert(st, n, v) ==
  IF n \in StoreNames(st)
    THEN [i \in 1..Len(st) |->
            IF st[i].name = n THEN [name |-> n, value |-> v] ELSE st[i]]
    ELSE Append(st, [name |-> n, value |-> v])

\* delete_secret / delete_variable
Remove(st, n) == SelectSeq(st, LAMBDA e : e.name # n)

\* repo.get_secrets(): the Secret objects carry the name only
ListSecrets(st) == [i \in 1..Len(st) |-> [ret |-> "Secret", name |-> st[i].name, value |-> NoValue]]

\* repo.get_variables(): the Variable objects carry name and value
ListVariables(st) == [i \in 1..Len(st) |-> [ret |-> "Variable", name |-> st[i].name, value |-> st[i].value]]

Names(objs) == [i \in 1..Len(objs) |-> objs[i].name]

(***************************************************************************)
(* get_github_repo: the user lookup, then the organization fallback.       *)
(***************************************************************************)
LookupOutcomes == {"ok", "unknown", "bad_credentials"}

GetGithubRepoFallbackAny(user, org) ==
  IF user = "ok" THEN "repo"
  ELSE IF user = "unknown" THEN "repo"
  ELSE "GithubException"

\* "repo" when a lookup yields the repository, else the GithubException that
\* leaves the function (UnknownObjectException is caught once only)
GetGithubRepo(user, org) ==
  IF user = "ok" THEN "repo"
  ELSE IF user = "unknown" /\ org = "ok" THEN "repo"
  ELSE "GithubException"

(***************************************************************************)
(* The task lists built by the two reconcilers.  plan is the branch taken  *)
(* (the one the log line names), call the Repository method handed to      *)
(* asyncio.to_thread.                                                      *)
(***************************************************************************)
Task(plan, call, name, value) ==
  [plan |-> plan, call |-> call, name |-> name, value |-> value]

SecretTasksNoDelete(env_data, secret_names) ==
  [i \in 1..Len(env_data) |->
     Task(IF env_data[i][1] \in Range(secret_names) THEN "update" ELSE "create",
          "create_secret", env_data[i][1], env_data[i][2])]

SecretTasksUpdateVerb(env_data, secret_names) ==
  [i \in 1..Len(env_data) |->
     Task(IF env_data[i][1] \in Range(secret_names) THEN "update" ELSE "create",
          IF env_data[i][1] \in Range(secret_names)
            THEN "update_secret" ELSE "create_secret",
          env_data[i][1], env_data[i][2])]
  \o
  LET gone == SelectSeq(secret_names, LAMBDA n : n \notin Keys(env_data))
  IN [j \in 1..Len(gone) |-> Task("delete", "delete_secret", gone[j], NoValue)]

SecretTasks(env_data, secret_names) ==
  [i \in 1..Len(env_data) |->
     Task(IF env_data[i][1] \in Range(secret_names) THEN "update" ELSE "create",
          "create_secret", env_data[i][1], env_data[i][2])]
  \o
  LET gone == SelectSeq(secret_names, LAMBDA n : n \notin Keys(env_data))
  IN [j \in 1..Len(gone) |-> Task("delete", "delete_secret", gone[j], NoValue)]

VariableTasksDeleteAll(env_data, var_names) ==
  [i \in 1..Len(env_data) |->
     IF env_data[i][1] \in Range(var_names)
       THEN Task("update", "delete_then_create_variable",
                 env_data[i][1], env_data[i][2])
       ELSE Task("create", "create_variable", env_data[i][1], env_data[i][2])]
  \o
  [j \in 1..Len(var_names) |->
     Task("delete", "delete_variable", var_names[j], NoValue)]

\* an update as two tasks, a delete_variable and a create_variable
VariableTasksSplit(env_data, var_names) ==
  Concat([i \in 1..Len(env_data) |->
     IF env_data[i][1] \in Range(var_names)
       THEN << Task("update", "delete_variable", env_data[i][1], NoValue),
               Task("update", "create_variable",
                    env_data[i][1], env_data[i][2]) >>
       ELSE << Task("create", "create_variable",
                    env_data[i][1], env_data[i][2]) >>])
  \o
  LET gone == SelectSeq(var_names, LAMBDA n : n \notin Keys(env_data))
  IN [j \in 1..Len(gone) |-> Task("delete", "delete_variable", gone[j], NoValue)]

\* no task for a local variable whose remote value is already the local one
VariableTasksSkipUnchanged(env_data, var_names) ==
  LET changed ==
        SelectSeq(env_data,
                  LAMBDA e : ~(/\ e[1] \in StoreNames(varStore)
                               /\ StoreValue(varStore, e[1]) = e[2]))
  IN [i \in 1..Len(changed) |->
        IF changed[i][1] \in Range(var_names)
          THEN Task("update", "delete_then_create_variable",
                    changed[i][1], changed[i][2])
          ELSE Task("create", "create_variable", changed[i][1], changed[i][2])]
     \o
     LET gone == SelectSeq(var_names, LAMBDA n : n \notin Keys(env_data))
     IN [j \in 1..Len(gone) |->
           Task("delete", "delete_variable", gone[j], NoValue)]

VariableTasks(env_data, var_names) ==
  [i \in 1..Len(env_data) |->
     IF env_data[i][1] \in Range(var_names)
       THEN Task("update", "delete_then_create_variable",
                 env_data[i][1], env_data[i][2])
       ELSE Task("create", "create_variable", env_data[i][1], env_data[i][2])]
  \o
  LET gone == SelectSeq(var_names, LAMBDA n : n \notin Keys(env_data))
  IN [j \in 1..Len(gone) |-> Task("delete", "delete_variable", gone[j], NoValue)]

\* whether the task list is handed to asyncio.gather
GatherAlways(dry) == TRUE

GatherAwaited(dry) == ~dry

\* what a task's to_thread call returns when it does not raise
ReturnValue(t) ==
  IF t.call \in {"create_secret", "update_secret"}
    THEN [ret |-> "Secret", name |-> t.name, value |-> NoValue]
  ELSE IF t.call \in {"create_variable", "delete_then_create_variable"}
    THEN [ret |-> "Variable", name |-> t.name, value |-> t.value]
  ELSE [ret |-> "True", name |-> t.name, value |-> NoValue]

\* the dry-run result: the objects of the listing
DryRunPreview(objs, ts) == [i \in 1..Len(ts) |-> ReturnValue(ts[i])]

DryRunResults(objs, ts) == [i \in 1..Len(objs) |-> objs[i]]

Call(op, name, value) == [op |-> op, name |-> name, value |-> value]

Issue(c) == calls (+) SetToBag({c})

Error(op, name) == [op |-> op, name |-> name]

\* where a work item stands after its first remote call: an exception ends
\* it; delete_then_create_variable goes on to create_variable only when
\* delete_variable returned
AfterFirstCallSwallow(call, ok) ==
  IF call = "delete_then_create_variable" THEN "deleted"
  ELSE IF ok THEN "ok" ELSE "failed"

\* the update of a variable ending with its delete_variable
AfterFirstCallNoCreate(call, ok) == IF ok THEN "ok" ELSE "failed"

AfterFirstCall(call, ok) ==
  IF ~ok THEN "failed"
  ELSE IF call = "delete_then_create_variable" THEN "deleted"
  ELSE "ok"

(***************************************************************************)
(* Initial states.                                                         *)
(***************************************************************************)
InitRun ==
  /\ lineNo = 0
  /\ secrets = <<>>
  /\ not_secrets = <<>>
  /\ pc = "read"
  /\ secretStore0 = secretStore
  /\ varStore0 = varStore
  /\ listing = [b \in {"SECRETS", "VARIABLES"} |-> <<>>]
  /\ tasks = <<>>
  /\ taskState = <<>>
  /\ results = <<>>
  /\ partial = <<>>
  /\ calls = EmptyBag
  /\ fetches = {}
  /\ lookup = <<>>
  /\ errors = {}
  /\ summary = <<>>
  /\ run = 1

Init ==
  /\ file \in SeqsUpTo(FileLines, MaxLines)
  /\ dry_run \in BOOLEAN
  /\ secretStore \in StoresOver(RemoteSecretNames, MaxRemote)
  /\ varStore \in StoresOver(RemoteVariableNames, MaxRemote)
  /\ InitRun

InitClassify ==
  /\ file \in SeqsUpTo(ClassifyLines, MaxLines)
  /\ dry_run = TRUE
  /\ secretStore = <<>>
  /\ varStore = <<>>
  /\ InitRun

(***************************************************************************)
(* perform_update: the loop over the file entries.                         *)
(***************************************************************************)
ReadLine ==
  /\ pc = "read"
  /\ lineNo < Len(file)
  /\ LET key == file[lineNo + 1][1]
         value == file[lineNo + 1][2]
     IN CASE MatchKey(key) = "skip" ->
               UNCHANGED <<secrets, not_secrets>>
          [] MatchKey(key) = "secret" ->
               /\ secrets' = DictSet(secrets, key, value)
               /\ UNCHANGED not_secrets
          [] OTHER ->
               /\ not_secrets' = DictSet(not_secrets, key, value)
               /\ UNCHANGED secrets
  /\ lineNo' = lineNo + 1
  /\ UNCHANGED <<run, summary, errors, file, dry_run, pc, secretStore, varStore, secretStore0,
                 varStore0, listing, tasks, taskState, results, partial,
                 calls, fetches, lookup>>

(***************************************************************************)
(* perform_update: get_github_repo inside try/except, exit(1) on a         *)
(* GithubException.  The organization is looked up only after the user     *)
(* lookup raised UnknownObjectException.                                   *)
(***************************************************************************)
ResolveRepo ==
  /\ pc = "read"
  /\ lineNo = Len(file)
  /\ \E user \in LookupOutcomes :
       \E org \in (IF user = "unknown" THEN LookupOutcomes ELSE {"not_called"}) :
         /\ lookup' = <<user, org>>
         /\ pc' = IF GetGithubRepo(user, org) = "repo" THEN "secrets" ELSE "exited"
  /\ UNCHANGED <<run, summary, errors, file, lineNo, secrets, not_secrets, dry_run, secretStore,
                 varStore, secretStore0, varStore0, listing, tasks, taskState,
                 results, partial, calls, fetches>>

(***************************************************************************)
(* create_or_update_github_secrets up to its last statement: the listing   *)
(* is fetched (the call may raise), the task list is built, and either the *)
(* listing is returned (dry run) or the tasks are handed to gather, which  *)
(* schedules every to_thread work item.                                    *)
(***************************************************************************)
SecretsBegin ==
  /\ pc = "secrets"
  /\ fetches' = fetches \cup {"SECRETS"}
  /\ \E ok \in BOOLEAN :
       IF ~ok
         THEN /\ pc' = "raised"
              /\ errors' = errors \cup {Error("get_secrets", NoValue)}
              /\ UNCHANGED <<listing, tasks, taskState, partial>>
         ELSE LET objs == ListSecrets(secretStore)
                  ts == SecretTasks(secrets, Names(objs))
              IN /\ listing' = [listing EXCEPT !["SECRETS"] = objs]
                 /\ UNCHANGED errors
                 /\ tasks' = ts
                 /\ IF GatherAwaited(dry_run)
                      THEN /\ taskState' = [i \in 1..Len(ts) |-> "pending"]
                           /\ pc' = "s_gather"
                           /\ UNCHANGED partial
                      ELSE /\ taskState' = [i \in 1..Len(ts) |-> "unawaited"]
                           /\ partial' = DryRunResults(objs, ts)
                           /\ pc' = "variables"
  /\ UNCHANGED <<run, summary, file, lineNo, secrets, not_secrets, dry_run, secretStore,
                 varStore, secretStore0, varStore0, results, calls, lookup>>

\* perform_update line 78-80 on the two result lists
Combined(secret_update_result, not_secret_update_result) ==
  << [b \in {"SECRETS", "VARIABLES"} |->
        IF b = "SECRETS" THEN secret_update_result
        ELSE not_secret_update_result] >>

(***************************************************************************)
(* create_or_update_github_variables up to its last statement.             *)
(***************************************************************************)
VariablesBegin ==
  /\ pc = "variables"
  /\ fetches' = fetches \cup {"VARIABLES"}
  /\ \E ok \in BOOLEAN :
       IF ~ok
         THEN /\ pc' = "raised"
              /\ errors' = errors \cup {Error("get_variables", NoValue)}
              /\ UNCHANGED <<listing, tasks, taskState, results>>
         ELSE LET objs == ListVariables(varStore)
                  ts == VariableTasks(not_secrets, Names(objs))
              IN /\ listing' = [listing EXCEPT !["VARIABLES"] = objs]
                 /\ UNCHANGED errors
                 /\ tasks' = ts
                 /\ IF GatherAwaited(dry_run)
                      THEN /\ taskState' = [i \in 1..Len(ts) |-> "pending"]
                           /\ pc' = "v_gather"
                           /\ UNCHANGED results
                      ELSE /\ taskState' = [i \in 1..Len(ts) |-> "unawaited"]
                           /\ results' = Combined(partial, DryRunResults(objs, ts))
                           /\ pc' = "done"
  /\ UNCHANGED <<run, summary, file, lineNo, secrets, not_secrets, dry_run, secretStore,
                 varStore, secretStore0, varStore0, partial, calls, lookup>>

(***************************************************************************)
(* The to_thread work items.  A work item waits in the executor until a    *)
(* worker thread takes it; it then makes its remote call(s), each of which *)
(* either takes effect or raises.                                          *)
(***************************************************************************)
ThreadStart(i) ==
  /\ pc \in {"s_gather", "v_gather", "raised"}
  /\ taskState[i] = "pending"
  /\ taskState' = [taskState EXCEPT ![i] = "running"]
  /\ UNCHANGED <<run, summary, errors, file, lineNo, secrets, not_secrets, dry_run, pc, secretStore,
                 varStore, secretStore0, varStore0, listing, tasks, results,
                 partial, calls, fetches, lookup>>

\* the effect of one Repository call that does not raise
Apply(op, name, value) ==
  CASE op \in {"create_secret", "update_secret"} ->
         /\ secretStore' = Upsert(secretStore, name, value)
         /\ UNCHANGED varStore
    [] op = "delete_secret" ->
         /\ secretStore' = Remove(secretStore, name)
         /\ UNCHANGED varStore
    [] op = "create_variable" ->
         /\ varStore' = Upsert(varStore, name, value)
         /\ UNCHANGED secretStore
    [] op = "delete_variable" ->
         /\ varStore' = Remove(varStore, name)
         /\ UNCHANGED secretStore

\* the first (for most tasks the only) remote call of a work item
ThreadCall(i) ==
  /\ taskState[i] = "running"
  /\ LET t == tasks[i]
         twoStep == t.call = "delete_then_create_variable"
         op == IF twoStep THEN "delete_variable" ELSE t.call
         value == IF twoStep THEN NoValue ELSE t.value
     IN /\ calls' = Issue(Call(op, t.name, value))
        /\ \E ok \in BOOLEAN :
             /\ taskState' = [taskState EXCEPT ![i] = AfterFirstCall(t.call, ok)]
             /\ IF ok
                  THEN /\ Apply(op, t.name, value)
                       /\ UNCHANGED errors
                  ELSE /\ errors' = errors \cup {Error(op, t.name)}
                       /\ UNCHANGED <<secretStore, varStore>>
  /\ UNCHANGED <<run, summary, file, lineNo, secrets, not_secrets, dry_run, pc,
                 secretStore0, varStore0, listing, tasks, results, partial,
                 fetches, lookup>>

\* delete_then_create_variable after its delete_variable returned
ThreadCreateAfterDelete(i) ==
  /\ taskState[i] = "deleted"
  /\ LET t == tasks[i]
     IN /\ calls' = Issue(Call("create_variable", t.name, t.value))
        /\ \E ok \in BOOLEAN :
             IF ok
               THEN /\ Apply("create_variable", t.name, t.value)
                    /\ taskState' = [taskState EXCEPT ![i] = "ok"]
                    /\ UNCHANGED errors
               ELSE /\ taskState' = [taskState EXCEPT ![i] = "failed"]
                    /\ errors' = errors \cup {Error("create_variable", t.name)}
                    /\ UNCHANGED <<secretStore, varStore>>
  /\ UNCHANGED <<run, summary, file, lineNo, secrets, not_secrets, dry_run, pc,
                 secretStore0, varStore0, listing, tasks, results, partial,
                 fetches, lookup>>

(***************************************************************************)
(* await asyncio.gather over tasks: the list of return values once every   *)
(* task has returned; the first exception of a task is raised to the       *)
(* awaiting coroutine, which none of the callers catches.                  *)
(***************************************************************************)
\* the return values of the create and update tasks only
GatherResultsSkipDeletes ==
  LET kept == SelectSeq(tasks, LAMBDA t : t.plan # "delete")
  IN [i \in 1..Len(kept) |-> ReturnValue(kept[i])]

GatherResults == [i \in 1..Len(tasks) |-> ReturnValue(tasks[i])]

\* returning after the first completion instead of after all of them
SecretsReturnEarly ==
  /\ pc = "s_gather"
  /\ \A i \in 1..Len(tasks) : taskState[i] # "failed"
  /\ \/ tasks = <<>>
     \/ \E i \in 1..Len(tasks) : taskState[i] = "ok"
  /\ partial' = GatherResults
  /\ pc' = "variables"
  /\ UNCHANGED <<run, summary, errors, file, lineNo, secrets, not_secrets,
                 dry_run, secretStore, varStore, secretStore0, varStore0,
                 listing, tasks, taskState, results, calls, fetches, lookup>>

SecretsReturn ==
  /\ pc = "s_gather"
  /\ \A i \in 1..Len(tasks) : taskState[i] = "ok"
  /\ partial' = GatherResults
  /\ pc' = "variables"
  /\ UNCHANGED <<run, summary, errors, file, lineNo, secrets, not_secrets, dry_run, secretStore,
                 varStore, secretStore0, varStore0, listing, tasks, taskState,
                 results, calls, fetches, lookup>>

VariablesReturn ==
  /\ pc = "v_gather"
  /\ \A i \in 1..Len(tasks) : taskState[i] = "ok"
  /\ results' = Combined(partial, GatherResults)
  /\ pc' = "done"
  /\ UNCHANGED <<run, summary, errors, file, lineNo, secrets, not_secrets, dry_run, secretStore,
                 varStore, secretStore0, varStore0, listing, tasks, taskState,
                 partial, calls, fetches, lookup>>

GatherRaise ==
  /\ pc \in {"s_gather", "v_gather"}
  /\ \E i \in 1..Len(tasks) : taskState[i] = "failed"
  /\ pc' = "raised"
  /\ UNCHANGED <<run, summary, errors, file, lineNo, secrets, not_secrets, dry_run, secretStore,
                 varStore, secretStore0, varStore0, listing, tasks, taskState,
                 results, partial, calls, fetches, lookup>>

(***************************************************************************)
(* asyncio.run after perform_update raised: the remaining tasks are        *)
(* cancelled (a work item no thread has taken yet never runs), then the    *)
(* executor is shut down, which waits for the work items already running.  *)
(***************************************************************************)
RunCancelTasks ==
  /\ pc = "raised"
  /\ taskState' = [i \in 1..Len(taskState) |->
                     IF taskState[i] = "pending" THEN "cancelled"
                     ELSE taskState[i]]
  /\ pc' = "shutdown"
  /\ UNCHANGED <<run, summary, errors, file, lineNo, secrets, not_secrets, dry_run, secretStore,
                 varStore, secretStore0, varStore0, listing, tasks, results,
                 partial, calls, fetches, lookup>>

RunShutdownExecutor ==
  /\ pc = "shutdown"
  /\ \A i \in 1..Len(taskState) : taskState[i] \notin {"running", "deleted"}
  /\ pc' = "crashed"
  /\ UNCHANGED <<run, summary, errors, file, lineNo, secrets, not_secrets, dry_run, secretStore,
                 varStore, secretStore0, varStore0, listing, tasks, taskState,
                 results, partial, calls, fetches, lookup>>

(***************************************************************************)
(* cli after asyncio.run returned: the two totals of the summary line.     *)
(***************************************************************************)
CliSummary ==
  /\ pc = "done"
  /\ summary' = <<Len(results[1]["SECRETS"]), Len(results[1]["VARIABLES"])>>
  /\ pc' = "printed"
  /\ UNCHANGED <<run, errors, file, lineNo, secrets, not_secrets, dry_run,
                 secretStore, varStore, secretStore0, varStore0, listing,
                 tasks, taskState, results, partial, calls, fetches, lookup>>

Next ==
  \/ ReadLine
  \/ ResolveRepo
  \/ SecretsBegin
  \/ VariablesBegin
  \/ \E i \in 1..Len(taskState) : ThreadStart(i)
  \/ \E i \in 1..Len(taskState) : ThreadCall(i)
  \/ \E i \in 1..Len(taskState) : ThreadCreateAfterDelete(i)
  \/ SecretsReturn
  \/ VariablesReturn
  \/ GatherRaise
  \/ RunCancelTasks
  \/ RunShutdownExecutor
  \/ CliSummary

Spec == Init /\ [][Next]_vars

(***************************************************************************)
(* The command invoked again on the same file after it printed its         *)
(* summary: everything but the file and the remote store is built afresh.  *)
(***************************************************************************)
MaxRuns == 2

RunAgain ==
  /\ pc = "printed"
  /\ run < MaxRuns
  /\ run' = run + 1
  /\ lineNo' = 0
  /\ secrets' = <<>>
  /\ not_secrets' = <<>>
  /\ pc' = "read"
  /\ secretStore0' = secretStore
  /\ varStore0' = varStore
  /\ listing' = [b \in {"SECRETS", "VARIABLES"} |-> <<>>]
  /\ tasks' = <<>>
  /\ taskState' = <<>>
  /\ results' = <<>>
  /\ partial' = <<>>
  /\ calls' = EmptyBag
  /\ fetches' = {}
  /\ lookup' = <<>>
  /\ errors' = {}
  /\ summary' = <<>>
  /\ UNCHANGED <<file, dry_run, secretStore, varStore>>

InitTwice == Init /\ dry_run = FALSE

NextTwice == Next \/ RunAgain

SpecTwice == InitTwice /\ [][NextTwice]_vars

NextClassify == ReadLine

SpecClassify == InitClassify /\ [][NextClassify]_vars

(***************************************************************************)
(* Properties.                                                             *)
(***************************************************************************)
Live == ~dry_run

PlanNames(ts, plan) == {ts[i].name : i \in {j \in 1..Len(ts) : ts[j].plan = plan}}

Plans(ts) == {ts[i].plan : i \in 1..Len(ts)}

NoDuplicates(st) == Cardinality(StoreNames(st)) = Len(st)

\* C1: when a live run has returned (every remote call succeeded), the
\* remote secret names are exactly the keys of the local secrets bucket, the
\* remote variable names exactly the keys of the local variables bucket, and
\* every remote variable holds the local value, whatever the order in which
\* the concurrent operations completed.
C1_RemoteMatchesLocal ==
  (Live /\ pc = "done") =>
     /\ StoreNames(secretStore) = Keys(secrets)
     /\ StoreNames(varStore) = Keys(not_secrets)
     /\ NoDuplicates(secretStore)
     /\ NoDuplicates(varStore)
     /\ \A k \in Keys(not_secrets) :
          StoreValue(varStore, k) = Get(not_secrets, k)

C1_Witness ==
  /\ Live
  /\ pc = "done"
  /\ Len(results[1]["SECRETS"]) >= 2
  /\ Len(results[1]["VARIABLES"]) >= 2
  /\ StoreNames(secretStore) # StoreNames(secretStore0)
  /\ varStore # varStore0

\* C2: in a dry run no create, update or delete call reaches the remote
\* store, whatever the plan contains: both stores stay as they were when the
\* run started.
C2_DryRunMutatesNothing ==
  dry_run =>
     /\ calls = EmptyBag
     /\ secretStore = secretStore0
     /\ varStore = varStore0

C2_Witness ==
  /\ dry_run
  /\ pc = "variables"
  /\ Plans(tasks) = {"create", "update", "delete"}

\* C3: a dry run returns, for each bucket, the remote listing fetched before
\* planning, in listing order and whatever the local bucket holds; the
\* returned structure has a SECRETS and a VARIABLES entry.
C3_DryRunReturnsListing ==
  (dry_run /\ pc = "done") =>
     /\ Len(results) = 1
     /\ DOMAIN results[1] = {"SECRETS", "VARIABLES"}
     /\ results[1]["SECRETS"] = ListSecrets(secretStore0)
     /\ results[1]["VARIABLES"] = ListVariables(varStore0)

C3_Witness ==
  /\ dry_run
  /\ pc = "done"
  /\ Len(results[1]["SECRETS"]) = 2
  /\ Len(results[1]["VARIABLES"]) = 2
  /\ Keys(secrets) # {}
  /\ Keys(secrets) \cap StoreNames(secretStore0) = {}
  /\ Keys(not_secrets) # StoreNames(varStore0)

\* C4: a failed create, update or delete is only that key's result and never
\* aborts the batch or the run: perform_update does not raise because a
\* task failed.
C4_FailureDoesNotAbort ==
  (\E i \in 1..Len(taskState) : taskState[i] = "failed") =>
     pc \notin {"raised", "shutdown", "crashed"}

\* C5: once a batch is dispatched every operation of it runs; the failure of
\* one operation never cancels a sibling, started or not.
C5_NoSiblingCancelled ==
  \A i \in 1..Len(taskState) : taskState[i] # "cancelled"

\* the keys of the file entries classified so far
ReadKeys == {file[i][1] : i \in 1..lineNo}

ExpectedExcluded == {K_AWS_PROFILE_NAME, K_AWS_PROFILE_KEY, K_AWS_PROFILE}

ExpectedSecrets ==
  {K_API_TOKEN, K_DB_PASSWORD, K_aws_profile_key, K_Hash_Salt, K_MONKEY,
   K_PASZ}

\* C6: classification partitions the keys read so far into secrets,
\* variables and excluded: a key starting with AWS_PROFILE (case-sensitive)
\* is in neither bucket even when it contains an indicator; otherwise a key
\* whose case-folded form contains an indicator is in secrets only; every
\* other key is in variables only.
C6_ClassificationPartition ==
  LET S == Keys(secrets)
      V == Keys(not_secrets)
      X == {k \in ReadKeys : startswith(k, RESERVED_PREFIX)}
  IN /\ S \cup V \cup X = ReadKeys
     /\ S \cap V = {}
     /\ S \cap X = {}
     /\ V \cap X = {}
     /\ \A k \in ReadKeys :
          IF startswith(k, RESERVED_PREFIX) THEN k \notin S \cup V
          ELSE IF \E n \in 1..Len(SECRETS_INDICATORS) :
                    contains(casefold(k), SECRETS_INDICATORS[n])
            THEN k \in S \ V
          ELSE k \in V \ S
     /\ X = ReadKeys \cap ExpectedExcluded
     /\ S = ReadKeys \cap ExpectedSecrets

C6_Witness ==
  /\ lineNo = Len(file)
  /\ K_AWS_PROFILE_KEY \in ReadKeys
  /\ K_AWS_PROFILE_KEY \notin Keys(secrets) \cup Keys(not_secrets)
  /\ K_Hash_Salt \in Keys(secrets)

PlanPartition(ts, local, remote) ==
  LET C == PlanNames(ts, "create")
      U == PlanNames(ts, "update")
      D == PlanNames(ts, "delete")
  IN /\ C = local \ remote
     /\ U = local \cap remote
     /\ D = remote \ local
     /\ C \cap U = {}
     /\ C \cap D = {}
     /\ U \cap D = {}
     /\ C \cup U \cup D = local \cup remote

\* C7: the plan of a bucket (the branches taken while its task list was
\* built) has pairwise disjoint create, update and delete sets whose union
\* is local keys + remote names: create = local keys absent remotely,
\* update = keys on both sides, delete = remote names absent locally.
C7_PlanPartition ==
  /\ pc \in {"s_gather", "variables"} =>
       PlanPartition(tasks, Keys(secrets), Range(Names(listing["SECRETS"])))
  /\ pc \in {"v_gather", "done"} =>
       PlanPartition(tasks, Keys(not_secrets),
                     Range(Names(listing["VARIABLES"])))

C7_Witness ==
  /\ pc = "v_gather"
  /\ Plans(tasks) = {"update", "delete"}
  /\ Len(partial) = 2

\* C8: when neither the user lookup nor the organization fallback yields
\* the repository, or the credential is rejected, the run has exited
\* (exit(1)): no listing was fetched, no mutation issued, nothing returned.
C8_UnresolvedRepoExits ==
  (/\ lookup # <<>>
   /\ \/ lookup[1] = "bad_credentials"
      \/ lookup[1] = "unknown" /\ lookup[2] # "ok") =>
     /\ pc = "exited"
     /\ fetches = {}
     /\ calls = EmptyBag
     /\ results = <<>>
     /\ partial = <<>>
     /\ tasks = <<>>
     /\ secretStore = secretStore0
     /\ varStore = varStore0

C8_Witness ==
  /\ pc = "exited"
  /\ lookup = <<"unknown", "unknown">>
  /\ Len(secrets) > 0
  /\ Len(secretStore0) > 0

\* C9: no remote call is ever issued for a key of the file that the
\* reserved-prefix rule excludes.
C9_NoCallForReservedKey ==
  \A c \in BagToSet(calls) :
    ~(c.name \in ReadKeys /\ startswith(c.name, RESERVED_PREFIX))

Aborted == pc \in {"raised", "shutdown", "crashed"}

TwoStep(t) == t.call = "delete_then_create_variable"

\* C11: when the delete of a variable update succeeded and its create
\* failed, the variable is absent remotely and the failure is reported in
\* the returned result: the run is not aborted by it.
C11_CreateFailureReported ==
  \A i \in 1..Len(tasks) :
    (TwoStep(tasks[i]) /\ Error("create_variable", tasks[i].name) \in errors) =>
       /\ tasks[i].name \notin StoreNames(varStore)
       /\ ~Aborted

Completed == \A i \in 1..Len(taskState) : taskState[i] \in {"ok", "failed"}

VariableOps == {"create_variable", "delete_variable"}

\* a call of one of the given operations is issued by the step
Issues(ops) ==
  \E c \in BagToSet(calls') :
    c.op \in ops /\ CopiesIn(c, calls') > CopiesIn(c, calls)

\* C12: in a live run every operation dispatched for the secrets bucket has
\* completed when the secrets result list is returned and when the first
\* remote call for the variables bucket is issued (its listing fetch, which
\* precedes every variable mutation); every variable operation has
\* completed when perform_update returns.
C12_BatchBarrier ==
  [][Live =>
       /\ (pc = "s_gather" /\ pc' = "variables") => Completed
       /\ ("VARIABLES" \notin fetches /\ "VARIABLES" \in fetches') => Completed
       /\ Issues(VariableOps) =>
            /\ "VARIABLES" \in fetches
            /\ \A i \in 1..Len(tasks) :
                 tasks[i].call \notin {"create_secret", "delete_secret"}
       /\ (pc # "done" /\ pc' = "done") => Completed']_vars

C12_Witness ==
  /\ Live
  /\ pc = "done"
  /\ Len(partial) = 2
  /\ Len(results[1]["VARIABLES"]) = 2

\* the number of calls of op issued for the name
CallCount(op, name) ==
  LET cs == {c \in BagToSet(calls) : c.op = op /\ c.name = name}
  IN IF cs = {} THEN 0
     ELSE IF Cardinality(cs) > 1 THEN Cardinality(cs)
     ELSE CopiesIn(CHOOSE c \in cs : TRUE, calls)

\* C13: when a live run has ended, with or without a failed operation, every
\* planned operation of the last bucket was executed exactly once (a
\* variable update: one delete, at most one create) and no call targets a
\* name outside local keys + remote names.
C13_ExactlyOncePerPlannedKey ==
  (Live /\ pc \in {"done", "crashed"}) =>
     /\ \A i \in 1..Len(tasks) :
          IF TwoStep(tasks[i])
            THEN /\ CallCount("delete_variable", tasks[i].name) = 1
                 /\ CallCount("create_variable", tasks[i].name) <= 1
            ELSE CallCount(tasks[i].call, tasks[i].name) = 1
     /\ \A c \in BagToSet(calls) :
          c.name \in Keys(secrets) \cup Keys(not_secrets)
                     \cup StoreNames(secretStore0) \cup StoreNames(varStore0)

CalledNames == {c.name : c \in BagToSet(calls)}

\* C14: the tasks of a batch target pairwise distinct keys; a remote entry
\* receives two calls in a run only as the delete and the create of one
\* variable update, and that create is issued only after the delete has
\* returned.
C14_DistinctKeysSequentialUpdate ==
  /\ \A i, j \in 1..Len(tasks) : i # j => tasks[i].name # tasks[j].name
  /\ \A n \in CalledNames :
       /\ CallCount("create_secret", n) + CallCount("delete_secret", n) <= 1
       /\ CallCount("create_variable", n) <= 1
       /\ CallCount("delete_variable", n) <= 1
       /\ CallCount("create_variable", n) + CallCount("delete_variable", n) = 2
            => \E i \in 1..Len(tasks) : TwoStep(tasks[i]) /\ tasks[i].name = n
  /\ \A i \in 1..Len(tasks) :
       TwoStep(tasks[i]) =>
         /\ taskState[i] \in {"unawaited", "pending", "running", "cancelled"} =>
              /\ CallCount("delete_variable", tasks[i].name) = 0
              /\ CallCount("create_variable", tasks[i].name) = 0
         /\ taskState[i] = "deleted" =>
              /\ CallCount("delete_variable", tasks[i].name) = 1
              /\ CallCount("create_variable", tasks[i].name) = 0
         /\ CallCount("create_variable", tasks[i].name) = 1 =>
              /\ CallCount("delete_variable", tasks[i].name) = 1
              /\ Error("delete_variable", tasks[i].name) \notin errors
              /\ taskState[i] \in {"ok", "failed"}

C14_Witness ==
  /\ Live
  /\ pc = "v_gather"
  /\ Len(tasks) = 2
  /\ \E i \in 1..Len(tasks) :
       /\ TwoStep(tasks[i])
       /\ taskState[i] = "ok"
       /\ CallCount("create_variable", tasks[i].name) = 1

\* C15: in a live run every local key that exists remotely is dispatched as
\* an update whether or not the remote value equals the local one (secret:
\* create_secret; variable: delete_then_create_variable), and when the run
\* returns each such variable has received one delete and one create, each
\* such secret one create_secret.
C15_UpdatesUnconditional ==
  Live =>
    /\ pc = "s_gather" =>
         \A k \in Keys(secrets) \cap StoreNames(secretStore0) :
           \E i \in 1..Len(tasks) :
             /\ tasks[i] = Task("update", "create_secret", k, Get(secrets, k))
             /\ taskState[i] # "unawaited"
    /\ pc = "v_gather" =>
         \A k \in Keys(not_secrets) \cap StoreNames(varStore0) :
           \E i \in 1..Len(tasks) :
             /\ tasks[i] = Task("update", "delete_then_create_variable",
                                k, Get(not_secrets, k))
             /\ taskState[i] # "unawaited"
    /\ pc = "done" =>
         /\ \A k \in Keys(not_secrets) \cap StoreNames(varStore0) :
              /\ CallCount("delete_variable", k) = 1
              /\ CallCount("create_variable", k) = 1
         /\ \A k \in Keys(secrets) \cap StoreNames(secretStore0) :
              CallCount("create_secret", k) = 1

C15_Witness ==
  /\ Live
  /\ pc = "done"
  /\ \E k \in Keys(not_secrets) \cap StoreNames(varStore0) :
       /\ StoreValue(varStore0, k) = Get(not_secrets, k)
       /\ CallCount("delete_variable", k) = 1
       /\ CallCount("create_variable", k) = 1

KeySeq(d) == [i \in 1..Len(d) |-> d[i][1]]

\* local keys in dict order, then the listed names absent locally
PlannedOrder(local, store) ==
  KeySeq(local) \o
  SelectSeq([i \in 1..Len(store) |-> store[i].name],
            LAMBDA n : n \notin Keys(local))

\* C16: after a live run without failures the result list of a bucket has
\* one entry per planned operation, creates and updates in local order then
\* deletes, so its length is the number of names in local keys + remote
\* names; the totals printed by cli are these lengths, and they are 1 and 1
\* for the file {DB_PASSWORD, REGION} against empty remote listings.
C16_ResultCounts ==
  (Live /\ pc = "printed") =>
     LET rs == results[1]["SECRETS"]
         rv == results[1]["VARIABLES"]
     IN /\ Len(rs) = Cardinality(Keys(secrets) \cup StoreNames(secretStore0))
        /\ Len(rv) = Cardinality(Keys(not_secrets) \cup StoreNames(varStore0))
        /\ Names(rs) = PlannedOrder(secrets, secretStore0)
        /\ Names(rv) = PlannedOrder(not_secrets, varStore0)
        /\ \A i \in 1..Len(rs) : rs[i].ret = "True" <=> i > Len(secrets)
        /\ \A i \in 1..Len(rv) : rv[i].ret = "True" <=> i > Len(not_secrets)
        /\ summary = <<Cardinality(Keys(secrets) \cup StoreNames(secretStore0)),
                       Cardinality(Keys(not_secrets) \cup StoreNames(varStore0))>>
        /\ (/\ file = << <<K_DB_PASSWORD, "v2">>, <<K_REGION, "v1">> >>
            /\ secretStore0 = <<>>
            /\ varStore0 = <<>>) => summary = <<1, 1>>

C16_Witness ==
  /\ Live
  /\ pc = "printed"
  /\ file = << <<K_DB_PASSWORD, "v2">>, <<K_REGION, "v1">> >>
  /\ secretStore0 = <<>>
  /\ varStore0 = <<>>
  /\ summary = <<1, 1>>

ListingErrors == {Error("get_secrets", NoValue), Error("get_variables", NoValue)}

\* C17 as stated: once the repository is resolved a dry run never raises,
\* whatever the remote store does.
C17_DryRunNeverRaises ==
  (dry_run /\ lookup # <<>>) => ~Aborted

\* C17 amended: a dry run never raises from a create, update or delete call
\* (it issues none); once the repository is resolved it raises only when a
\* listing call raised, and what it returns is the SECRETS/VARIABLES dict.
C17_DryRunRaisesOnlyOnListing ==
  dry_run =>
    /\ errors \subseteq ListingErrors
    /\ Cardinality(errors) <= 1
    /\ Aborted <=> errors # {}
    /\ \A i \in 1..Len(taskState) : taskState[i] = "unawaited"
    /\ pc \in {"done", "printed"} =>
         /\ Len(results) = 1
         /\ DOMAIN results[1] = {"SECRETS", "VARIABLES"}

C17_Witness ==
  /\ dry_run
  /\ pc = "crashed"
  /\ errors = {Error("get_variables", NoValue)}
  /\ Len(partial) = 2
  /\ Plans(tasks) = {"create", "delete"}

SameEntries(st, st0) ==
  /\ StoreNames(st) = StoreNames(st0)
  /\ \A n \in StoreNames(st) : StoreValue(st, n) = StoreValue(st0, n)

\* C18: a live run that follows a live run which returned, on the same file,
\* plans an update for every local key and nothing else in both buckets,
\* and when it returns the remote secret names, the remote variable names
\* and the variable values are those it started with.
C18_SecondRunConverges ==
  (Live /\ run >= 2) =>
    /\ pc = "s_gather" =>
         /\ Plans(tasks) \subseteq {"update"}
         /\ PlanNames(tasks, "update") = Keys(secrets)
         /\ Len(tasks) = Len(secrets)
    /\ pc \in {"v_gather", "done", "printed"} =>
         /\ Plans(tasks) \subseteq {"update"}
         /\ PlanNames(tasks, "update") = Keys(not_secrets)
         /\ Len(tasks) = Len(not_secrets)
    /\ pc \in {"done", "printed"} =>
         /\ StoreNames(secretStore) = StoreNames(secretStore0)
         /\ SameEntries(varStore, varStore0)
         /\ NoDuplicates(secretStore)
         /\ NoDuplicates(varStore)

C18_Witness ==
  /\ Live
  /\ run = 2
  /\ pc = "done"
  /\ Len(secrets) = 1
  /\ Len(tasks) = 1
  /\ CallCount("delete_variable", tasks[1].name) = 1
  /\ CallCount("create_variable", tasks[1].name) = 1

\* C19: when the delete of a variable update raised, the create for that key
\* is never issued: the remote variable is still there with the value it
\* had, and the local value is not written.
C19_FailedDeleteSkipsCreate ==
  \A i \in 1..Len(tasks) :
    (TwoStep(tasks[i]) /\ Error("delete_variable", tasks[i].name) \in errors) =>
       /\ taskState[i] = "failed"
       /\ CallCount("delete_variable", tasks[i].name) = 1
       /\ CallCount("create_variable", tasks[i].name) = 0
       /\ tasks[i].name \in StoreNames(varStore)
       /\ StoreValue(varStore, tasks[i].name)
            = StoreValue(varStore0, tasks[i].name)

C19_Witness ==
  /\ pc = "crashed"
  /\ \E i \in 1..Len(tasks) :
       /\ TwoStep(tasks[i])
       /\ Error("delete_variable", tasks[i].name) \in errors
       /\ tasks[i].value # StoreValue(varStore, tasks[i].name)

====
